---- MODULE Spec2Model ----
(***************************************************************************)
(* Model of HopfieldNetwork (src/Nnhopfield.py): train, recall, add_noise. *)
(*                                                                         *)
(* Arrays are functions over 0..K-1 (numpy indexing).  The float64 weight  *)
(* matrix is modelled with exact rationals n/d kept in lowest terms; the   *)
(* IEEE values the code can produce by dividing by len(patterns) = 0 are   *)
(* kept as d = 0:  1/0 = +inf, -1/0 = -inf, 0/0 = nan.  Rounding of        *)
(* float64 is not modelled.                                                *)
(***************************************************************************)
EXTENDS Integers, Sequences, FiniteSets, TLC

\* ------------------------------------------------------------------ bounds
MaxSize == 3        \* largest network size N of the engine
MaxPatterns == 2    \* largest number of patterns M in one train call
MaxTrains == 2      \* train calls per engine
MaxIter == 2        \* largest max_iter a caller passes to recall
NoiseDen == 4       \* noise levels are k/NoiseDen, k in 0..NoiseDen
MaxNeurons == 4     \* largest network size N of an engine recalling what it stores
MaxStored == 3      \* largest number of orthogonal patterns stored

\* --------------------------------------------------------------- constants
DefaultMaxIter == 10    \* def recall(self, pattern, max_iter=10)

\* ------------------------------------------------------------- float model
Abs(x) == IF x < 0 THEN -x ELSE x

Sign(x) == IF x > 0 THEN 1 ELSE IF x < 0 THEN -1 ELSE 0

RECURSIVE GCD(_, _)
GCD(a, b) == IF b = 0 THEN a ELSE GCD(b, a % b)

\* the float n/d, d >= 0, in lowest terms (x/0 is +-inf, 0/0 is nan)
Norm(n, d) ==
    IF d = 0 THEN [n |-> Sign(n), d |-> 0]
    ELSE LET g == GCD(Abs(n), d) IN [n |-> n \div g, d |-> d \div g]

Zero == [n |-> 0, d |-> 1]

NaN == [n |-> 0, d |-> 0]

FromInt(k) == [n |-> k, d |-> 1]

\* float addition: inf + (-inf) = nan, nan + x = nan, inf + x = inf
RAdd(a, b) ==
    IF a.d = 0 /\ b.d = 0 THEN (IF a.n = b.n THEN a ELSE NaN)
    ELSE IF a.d = 0 THEN a
    ELSE IF b.d = 0 THEN b
    ELSE Norm(a.n * b.d + b.n * a.d, a.d * b.d)

\* float times an integer: inf * 0 = nan
RMulInt(a, k) == Norm(a.n * k, a.d)

\* float divided by a count m >= 0: x / 0 = +-inf, 0 / 0 = nan
RDivInt(a, m) == Norm(a.n, a.d * m)

\* a >= 0 as numpy evaluates it: False for nan and -inf
RGeqZero(a) == (a.d > 0 /\ a.n >= 0) \/ (a.d = 0 /\ a.n = 1)

\* a == b as numpy evaluates it: nan equals nothing
REq(a, b) == a = b /\ a # NaN

\* ------------------------------------------------------------------ arrays
Idx(n) == 0 .. (n - 1)

ALen(a) == Cardinality(DOMAIN a)

\* all bipolar arrays of length n
Bipolar(n) == [Idx(n) -> {-1, 1}]

\* np.zeros((size, size))
Zeros(n) == [i \in Idx(n) |-> [j \in Idx(n) |-> Zero]]

\* np.outer(pattern, pattern): a K x K integer matrix
Outer(p) == [i \in DOMAIN p |-> [j \in DOMAIN p |-> p[i] * p[j]]]

\* can a K x K operand be added in place to the N x N weights (numpy broadcasting)
Broadcastable(n, p) == ALen(p) = n \/ ALen(p) = 1

\* faulty variant of AddOuter: the outer product is subtracted (self.weights -= ...)
AddOuterSubtracted(w, n, p) ==
    LET o == Outer(p)
    IN  [a \in Idx(n) |-> [b \in Idx(n) |->
            RAdd(w[a][b], FromInt(-(IF ALen(p) = n THEN o[a][b] ELSE o[0][0])))]]

\* self.weights += np.outer(pattern, pattern)
AddOuter(w, n, p) ==
    LET o == Outer(p)
    IN  [i \in Idx(n) |-> [j \in Idx(n) |->
            RAdd(w[i][j], FromInt(IF ALen(p) = n THEN o[i][j] ELSE o[0][0]))]]

\* faulty variant of FillDiagonal: the self-connections are left in place
FillDiagonalSkipped(w, n) == w

\* np.fill_diagonal(self.weights, 0)
FillDiagonal(w, n) ==
    [i \in Idx(n) |-> [j \in Idx(n) |-> IF i = j THEN Zero ELSE w[i][j]]]

\* self.weights /= len(patterns)
Normalize(w, n, m) == [i \in Idx(n) |-> [j \in Idx(n) |-> RDivInt(w[i][j], m)]]

\* the for loop of train from pattern k on: stops at the first pattern whose
\* outer product cannot be added, keeping what was accumulated before it
RECURSIVE Accumulate(_, _, _, _)
Accumulate(w, n, patterns, k) ==
    IF k > Len(patterns) THEN [weights |-> w, raised |-> FALSE]
    ELSE IF ~Broadcastable(n, patterns[k]) THEN [weights |-> w, raised |-> TRUE]
    ELSE Accumulate(AddOuter(w, n, patterns[k]), n, patterns, k + 1)

\* train(patterns) on an engine holding w: the weights it leaves and whether
\* it raised
TrainFn(w, n, patterns) ==
    LET acc == Accumulate(w, n, patterns, 1)
    IN  IF acc.raised THEN [weights |-> acc.weights, outcome |-> "ValueError"]
        ELSE [weights |-> Normalize(FillDiagonal(acc.weights, n), n, Len(patterns)),
              outcome |-> "ok"]

\* ------------------------------------------------------------------ recall
\* np.dot(self.weights[i], pattern), summed from position j on
RECURSIVE DotFrom(_, _, _, _)
DotFrom(row, pattern, j, n) ==
    IF j >= n THEN Zero
    ELSE RAdd(RMulInt(row[j], pattern[j]), DotFrom(row, pattern, j + 1, n))

Dot(row, pattern, n) == DotFrom(row, pattern, 0, n)

\* faulty variant of Activation: the comparison is turned round (<= for >=)
ActivationInverted(w, n, pattern, i) ==
    IF RGeqZero(RMulInt(Dot(w[i], pattern, n), -1)) THEN 1 ELSE -1

\* 1 if np.dot(self.weights[i], pattern) >= 0 else -1
Activation(w, n, pattern, i) == IF RGeqZero(Dot(w[i], pattern, n)) THEN 1 ELSE -1

\* pattern[i] = 1 if ... else -1, on the pattern as updated so far
UpdateNeuron(w, n, pattern, i) == [pattern EXCEPT ![i] = Activation(w, n, pattern, i)]

\* for i in range(self.size), from position i on
RECURSIVE SweepFrom(_, _, _, _)
SweepFrom(w, n, pattern, i) ==
    IF i >= n THEN pattern
    ELSE SweepFrom(w, n, UpdateNeuron(w, n, pattern, i), i + 1)

Sweep(w, n, pattern) == SweepFrom(w, n, pattern, 0)

\* faulty variant of ArrayEqual: previous_pattern is the same object as pattern (no
\* copy was taken), so the two always compare equal
ArrayEqualAliased(a, b) == a = a

\* faulty variant of ArrayEqual: the objects are compared (is), never the elements
ArrayEqualIdentity(a, b) == a = b /\ FALSE

\* np.array_equal(pattern, previous_pattern)
ArrayEqual(a, b) == a = b

\* for _ in range(max_iter) with `left` iterations to go: the pattern returned
RECURSIVE RecallLoop(_, _, _, _)
RecallLoop(w, n, pattern, left) ==
    IF left <= 0 THEN pattern
    ELSE LET swept == Sweep(w, n, pattern)
         IN  IF ArrayEqual(swept, pattern) THEN swept
             ELSE RecallLoop(w, n, swept, left - 1)

\* recall(pattern, max_iter) as a function of the weights and the query
RecallFn(w, n, pattern, max_iter) == RecallLoop(w, n, pattern, max_iter)

\* --------------------------------------------------------------- add_noise
\* faulty variant of NumNoisyBits: rounded to the nearest integer, not truncated
NumNoisyBitsRounded(n, k, den) == (2 * n * k + den) \div (2 * den)

\* int(self.size * noise_level) for the noise level k/den
NumNoisyBits(n, k, den) == (n * k) \div den

\* np.random.choice(range(self.size), num_noisy_bits, replace=False): the
\* sets of positions it can draw
NoiseChoices(n, num) == {s \in SUBSET Idx(n) : Cardinality(s) = num}

\* noisy_pattern[noise_indices] *= -1
FlipAt(pattern, indices) ==
    [j \in DOMAIN pattern |-> IF j \in indices THEN -pattern[j] ELSE pattern[j]]

\* -------------------------------------------------------------- references
\* Python arrays are objects: "caller" is the array the caller passes in,
\* "local" the array a method allocates.  None is an unallocated object.
None == <<>>

\* faulty variant of ArrayCopy: no copy is taken, the name is bound to the same object
ArrayCopyAliased(h, src, fresh) == [heap |-> h, ref |-> src]

\* pattern.copy(): a new object `fresh` holding the elements of `src`
ArrayCopy(h, src, fresh) == [heap |-> [h EXCEPT ![fresh] = h[src]], ref |-> fresh]

\* ------------------------------------------------------------------- state
VARIABLES
    size,              \* self.size
    weights,           \* self.weights
    trainCount,        \* train calls made so far
    allValid,          \* every train call so far met train's precondition
    op,                \* the last method called, "none" once its result is let go
    outcome,           \* "ok", or the exception the last call raised
    patterns,          \* the argument of train, while train is the last call made
    heap,              \* the arrays of the current or last recall/add_noise call
    arg,               \* the elements of the caller's array when it was passed
    pattern,           \* recall: the object its local name `pattern` refers to
    previous_pattern,  \* recall: the copy taken at the start of the sweep
    i,                 \* recall: the next position of the sweep
    it,                \* recall: sweeps completed
    max_iter,          \* recall: its max_iter argument
    rstate,            \* recall: Idle, Sweeping, Converged or Exhausted
    trace,             \* recall: the pattern at the call and after each sweep
    ret,               \* the object the last recall/add_noise call returned
    noise              \* add_noise: noise level numerator and positions drawn

vars == <<size, weights, trainCount, allValid, op, outcome, patterns, heap, arg,
          pattern, previous_pattern, i, it, max_iter, rstate, trace, ret, noise>>

engineVars == <<size, weights, trainCount, allValid>>

NoHeap == [caller |-> None, local |-> None]

NoNoise == [level |-> 0, indices |-> {}]

\* ------------------------------------------------------------------ inputs
Ones(n) == [j \in Idx(n) |-> 1]

\* patterns that break train's precondition: too long, of length 1, holding a 0
Malformed(n) ==
    {Ones(n + 1), [j \in Idx(n) |-> IF j = 0 THEN 0 ELSE 1]}
        \cup (IF n > 1 THEN {Ones(1)} ELSE {})

Pool(n) == Bipolar(n) \cup Malformed(n)

\* the training sets a caller passes: up to MaxPatterns patterns, the empty set
\* included
TrainingSets(n) == UNION {[1 .. m -> Pool(n)] : m \in 0 .. MaxPatterns}

\* train's precondition: M >= 1 bipolar patterns of length N
Valid(n, ps) == Len(ps) >= 1 /\ \A k \in 1 .. Len(ps) : ps[k] \in Bipolar(n)

\* np.dot of two stored patterns
RECURSIVE IntDotFrom(_, _, _, _)
IntDotFrom(a, b, j, n) ==
    IF j >= n THEN 0 ELSE a[j] * b[j] + IntDotFrom(a, b, j + 1, n)

\* the patterns of ps are pairwise orthogonal
Orthogonal(n, ps) ==
    \A k \in 1 .. Len(ps), l \in 1 .. Len(ps) :
        k # l => IntDotFrom(ps[k], ps[l], 0, n) = 0

Min(a, b) == IF a < b THEN a ELSE b

\* the sequences of exactly m pairwise-orthogonal bipolar patterns of length n
RECURSIVE OrthogonalSeqs(_, _)
OrthogonalSeqs(n, m) ==
    IF m = 0 THEN {<<>>}
    ELSE UNION {{Append(ps, p) : p \in {q \in Bipolar(n) : Orthogonal(n, Append(ps, q))}} :
                   ps \in OrthogonalSeqs(n, m - 1)}

\* the training sets of M pairwise-orthogonal bipolar patterns, 1 <= M < N
OrthogonalSets(n) == UNION {OrthogonalSeqs(n, m) : m \in 1 .. Min(MaxStored, n - 1)}

\* ----------------------------------------------------------------- actions
\* HopfieldNetwork(n)
Construct(n) ==
    /\ size = n
    /\ weights = Zeros(size)
    /\ trainCount = 0
    /\ allValid = TRUE
    /\ op = "none"
    /\ outcome = "ok"
    /\ patterns = <<>>
    /\ heap = NoHeap
    /\ arg = None
    /\ pattern = "none"
    /\ previous_pattern = None
    /\ i = 0
    /\ it = 0
    /\ max_iter = 0
    /\ rstate = "Idle"
    /\ trace = <<>>
    /\ ret = "none"
    /\ noise = NoNoise

Init == \E n \in 1 .. MaxSize : Construct(n)

\* the frame of a finished recall is gone when another method is called
NoRecallFrame ==
    /\ pattern' = "none"
    /\ previous_pattern' = None
    /\ i' = 0
    /\ it' = 0
    /\ max_iter' = 0
    /\ rstate' = "Idle"
    /\ trace' = <<>>

\* no call is running and the caller holds no array of an earlier call
CallerReady == rstate = "Idle" /\ ret = "none"

\* network.train(ps)
Train(ps) ==
    /\ CallerReady
    /\ trainCount < MaxTrains
    /\ LET r == TrainFn(weights, size, ps)
       IN  /\ weights' = r.weights
           /\ outcome' = r.outcome
    /\ op' = "train"
    /\ patterns' = ps
    /\ trainCount' = trainCount + 1
    /\ allValid' = (allValid /\ Valid(size, ps))
    /\ heap' = NoHeap
    /\ arg' = None
    /\ ret' = "none"
    /\ noise' = NoNoise
    /\ NoRecallFrame
    /\ UNCHANGED size

\* network.recall(q, mi): the call, up to the start of the first sweep
RecallCall(q, mi) ==
    /\ CallerReady
    /\ LET c == ArrayCopy([caller |-> q, local |-> None], "caller", "local")
       IN  /\ heap' = c.heap
           /\ pattern' = c.ref
           /\ trace' = <<c.heap[c.ref]>>
           /\ IF mi > 0
              THEN /\ previous_pattern' = c.heap[c.ref]
                   /\ rstate' = "Sweeping"
              ELSE /\ previous_pattern' = None
                   /\ rstate' = "Exhausted"
    /\ arg' = q
    /\ i' = 0
    /\ it' = 0
    /\ max_iter' = mi
    /\ op' = "recall"
    /\ outcome' = "ok"
    /\ patterns' = <<>>
    /\ ret' = "none"
    /\ noise' = NoNoise
    /\ UNCHANGED engineVars

\* one pass of the inner loop: pattern[i] = 1 if ... else -1
RecallUpdate ==
    /\ rstate = "Sweeping"
    /\ i < size
    /\ heap' = [heap EXCEPT ![pattern] = UpdateNeuron(weights, size, heap[pattern], i)]
    /\ i' = i + 1
    /\ UNCHANGED <<engineVars, op, outcome, patterns, arg, pattern, previous_pattern,
                   it, max_iter, rstate, trace, ret, noise>>

\* the end of a sweep: break if the pattern is unchanged, else the next
\* iteration of range(max_iter) or the end of the loop
RecallSweepEnd ==
    /\ rstate = "Sweeping"
    /\ i = size
    /\ it' = it + 1
    /\ trace' = Append(trace, heap[pattern])
    /\ IF ArrayEqual(heap[pattern], previous_pattern)
       THEN /\ rstate' = "Converged"
            /\ UNCHANGED <<previous_pattern, i>>
       ELSE IF it + 1 < max_iter
       THEN /\ previous_pattern' = heap[pattern]
            /\ i' = 0
            /\ UNCHANGED rstate
       ELSE /\ rstate' = "Exhausted"
            /\ UNCHANGED <<previous_pattern, i>>
    /\ UNCHANGED <<engineVars, op, outcome, patterns, heap, arg, pattern, max_iter,
                   ret, noise>>

\* return pattern
RecallReturn ==
    /\ rstate \in {"Converged", "Exhausted"}
    /\ ret' = pattern
    /\ rstate' = "Idle"
    /\ pattern' = "none"
    /\ previous_pattern' = None
    /\ i' = 0
    /\ UNCHANGED <<engineVars, op, outcome, patterns, heap, arg, it, max_iter, trace,
                   noise>>

\* network.add_noise(p, k / NoiseDen), drawing the positions in idx
AddNoise(p, k, idx) ==
    /\ CallerReady
    /\ LET c == ArrayCopy([caller |-> p, local |-> None], "caller", "local")
       IN  /\ heap' = [c.heap EXCEPT ![c.ref] = FlipAt(c.heap[c.ref], idx)]
           /\ ret' = c.ref
    /\ arg' = p
    /\ noise' = [level |-> k, indices |-> idx]
    /\ op' = "add_noise"
    /\ outcome' = "ok"
    /\ patterns' = <<>>
    /\ NoRecallFrame
    /\ UNCHANGED engineVars

\* the caller lets go of the arrays of its last recall or add_noise call (it
\* rebinds noisy_pattern and recovered_pattern for the next melody)
Release ==
    /\ rstate = "Idle"
    /\ ret # "none"
    /\ op' = "none"
    /\ heap' = NoHeap
    /\ arg' = None
    /\ ret' = "none"
    /\ noise' = NoNoise
    /\ NoRecallFrame
    /\ UNCHANGED <<engineVars, outcome, patterns>>

Next ==
    \/ /\ CallerReady
       /\ trainCount < MaxTrains
       /\ \E ps \in TrainingSets(size) : Train(ps)
    \/ /\ CallerReady
       /\ \E q \in Bipolar(size), mi \in 1 .. MaxIter : RecallCall(q, mi)
    \/ RecallUpdate
    \/ RecallSweepEnd
    \/ RecallReturn
    \/ /\ CallerReady
       /\ \E p \in Bipolar(size), k \in 0 .. NoiseDen :
             \E idx \in NoiseChoices(size, NumNoisyBits(size, k, NoiseDen)) :
                 AddNoise(p, k, idx)
    \/ Release

Spec == Init /\ [][Next]_vars

\* the engine as the program uses it: constructed, trained once, then used
\* (main: hopfield_net.train(patterns), then add_noise and recall per melody)
NextTrainedOnce ==
    \/ /\ CallerReady
       /\ trainCount = 0
       /\ \E ps \in TrainingSets(size) : Train(ps)
    \/ /\ CallerReady
       /\ \E q \in Bipolar(size), mi \in 1 .. MaxIter : RecallCall(q, mi)
    \/ RecallUpdate
    \/ RecallSweepEnd
    \/ RecallReturn
    \/ /\ CallerReady
       /\ \E p \in Bipolar(size), k \in 0 .. NoiseDen :
             \E idx \in NoiseChoices(size, NumNoisyBits(size, k, NoiseDen)) :
                 AddNoise(p, k, idx)
    \/ Release

SpecTrainedOnce == Init /\ [][NextTrainedOnce]_vars

\* ------------------------------------------------------- notions of the claims
\* W[i][j] == W[j][i] for all i, j
Symmetric(w, n) == \A a \in Idx(n), b \in Idx(n) : REq(w[a][b], w[b][a])

\* W[i][i] == 0 for all i
ZeroDiagonal(w, n) == \A a \in Idx(n) : REq(w[a][a], Zero)

\* a <= b for finite a, b
RLeq(a, b) == a.n * b.d <= b.n * a.d

\* the sum over i >= a, and all j, of W[i][j] * s[i] * s[j]
RECURSIVE QuadFrom(_, _, _, _)
QuadFrom(w, n, s, a) ==
    IF a >= n THEN Zero
    ELSE RAdd(RMulInt(Dot(w[a], s, n), s[a]), QuadFrom(w, n, s, a + 1))

\* twice the network energy: 2 E(s) = - sum over i, j of W[i][j] * s[i] * s[j]
Energy2(w, n, s) == RMulInt(QuadFrom(w, n, s, 0), -1)

\* the positions where two arrays differ
Differ(a, b) == {j \in DOMAIN a : a[j] # b[j]}

\* a recall call has returned
Returned == op = "recall" /\ rstate = "Idle" /\ ret # "none"

\* ---------------------------------------------------------------------- C4
\* C4: after one or more train calls, each with M >= 1 bipolar patterns of
\* length N, the weight matrix is symmetric and its diagonal is zero.
C4_SymmetricZeroDiagonal ==
    (trainCount >= 1 /\ allValid) =>
        (Symmetric(weights, size) /\ ZeroDiagonal(weights, size))

\* two valid train calls were made and left a weight that is not zero
C4_Witness ==
    /\ trainCount = 2
    /\ allValid
    /\ \E a \in Idx(size), b \in Idx(size) : weights[a][b] # Zero

\* ---------------------------------------------------------------------- C5
\* C5: train(P) called right after a successful train(P) with the same valid
\* set P leaves the weight matrix as the first call left it.
C5_RetrainIdempotent ==
    [][(/\ op = "train"
        /\ outcome = "ok"
        /\ Valid(size, patterns)
        /\ trainCount' = trainCount + 1
        /\ patterns' = patterns) => weights' = weights]_vars

\* ---------------------------------------------------------------------- C7
\* C7: a train call that fails leaves the weight matrix as it was before the
\* call.
C7_FailedTrainKeepsWeights ==
    [][(trainCount' = trainCount + 1 /\ outcome' # "ok") => weights' = weights]_vars

\* ---------------------------------------------------------------------- C8
\* C8: train fails whenever its argument breaks the precondition (an empty
\* set, a pattern of another length, a value outside {-1, +1}).
C8_InvalidInputRejected ==
    (op = "train" /\ ~Valid(size, patterns)) => outcome # "ok"

\* ---------------------------------------------------------------------- C2
\* the sweeps recorded in trace: each entry is a full sweep of the one before,
\* and none of the first k sweeps left the pattern unchanged
SweepsChanged(k) == \A m \in 1 .. k : trace[m + 1] # trace[m]

C2_Shape ==
    op = "recall" =>
        /\ it <= max_iter
        /\ Len(trace) = it + 1
        /\ trace[1] = arg
        /\ \A m \in 1 .. it : trace[m + 1] = Sweep(weights, size, trace[m])
        /\ rstate = "Sweeping" => (it < max_iter /\ SweepsChanged(it))
        /\ rstate = "Converged" =>
              /\ it >= 1
              /\ trace[it + 1] = trace[it]
              /\ SweepsChanged(it - 1)
              /\ heap[pattern] = trace[it + 1]
        /\ rstate = "Exhausted" =>
              /\ it = max_iter
              /\ SweepsChanged(it)
              /\ heap[pattern] = trace[it + 1]
        /\ Returned =>
              /\ heap[ret] = trace[it + 1]
              /\ \/ it >= 1 /\ trace[it + 1] = trace[it] /\ SweepsChanged(it - 1)
                 \/ it = max_iter /\ SweepsChanged(it)

\* the steps a recall has left: the sweeps to go times the steps of a sweep
Rank ==
    IF rstate = "Sweeping" THEN (max_iter - it) * (size + 2) - i
    ELSE IF rstate \in {"Converged", "Exhausted"} THEN 1
    ELSE 0

\* C2: recall stops after at most max_iter sweeps, Converged as soon as a sweep
\* leaves the pattern unchanged, Exhausted when max_iter sweeps all changed it;
\* every step of a running recall brings it nearer to its return, and the
\* pattern returned is the one current at the terminal state.
C2_RecallTerminates ==
    /\ []C2_Shape
    /\ [][(rstate # "Idle") => (Rank' < Rank /\ Rank' >= 0)]_vars

\* a recall on a trained engine that changed the pattern in its first sweep and
\* converged in its second
C2_Witness ==
    rstate = "Converged" /\ it = 2 /\ trace[1] # trace[2] /\ trainCount >= 1

\* ---------------------------------------------------------------------- C3
\* C3: when recall stopped because a sweep changed nothing, recall of the
\* pattern it returns gives that pattern again, for the default max_iter and for
\* every other one, on the same weights.
C3_ConvergedIsFixedPoint ==
    rstate = "Converged" =>
        \A mi \in (1 .. MaxIter) \cup {DefaultMaxIter} :
            RecallFn(weights, size, heap[pattern], mi) = heap[pattern]

\* a converged recall on a trained engine whose result is not the query
C3_Witness ==
    rstate = "Converged" /\ trainCount >= 1 /\ heap[pattern] # arg

\* ---------------------------------------------------------------------- C9
\* C9: on a trained engine (symmetric weights, zero diagonal) no update of a
\* single position by recall increases the energy of the pattern.
C9_EnergyNonIncreasing ==
    [][(rstate = "Sweeping" /\ i < size /\ trainCount >= 1 /\ allValid) =>
         RLeq(Energy2(weights, size, heap'[pattern]),
              Energy2(weights, size, heap[pattern]))]_vars

\* a recall on a trained engine whose first sweep lowered the energy
C9_Witness ==
    /\ op = "recall"
    /\ trainCount >= 1
    /\ allValid
    /\ it >= 1
    /\ ~RLeq(Energy2(weights, size, trace[1]), Energy2(weights, size, trace[2]))

\* --------------------------------------------------------------------- C10
\* C10: every step of recall and add_noise leaves size and the weight matrix
\* as they were and leaves the caller's array as it was passed; the array
\* returned is never the caller's.
C10_OnlyTrainWrites ==
    [][(trainCount' = trainCount) =>
         /\ weights' = weights
         /\ size' = size
         /\ heap'["caller"] = arg'
         /\ ret' # "caller"]_vars

\* a recall on a trained engine has returned a pattern that is not the query
C10_Witness ==
    Returned /\ trainCount >= 1 /\ heap[ret] # arg /\ heap["caller"] = arg

\* ---------------------------------------------------------------------- C6
\* C6: add_noise returns an array that differs from its input in exactly
\* floor(N * noise_level) positions, each a sign flip, and leaves the input as
\* it was: level 0 returns an equal array, level 1 flips every position.
C6_NoiseCardinality ==
    op = "add_noise" =>
        LET out == heap[ret]
        IN  /\ DOMAIN out = Idx(size)
            /\ Cardinality(Differ(out, arg)) = (size * noise.level) \div NoiseDen
            /\ \A j \in Idx(size) : out[j] \in {arg[j], -arg[j]}
            /\ heap["caller"] = arg
            /\ noise.level = 0 => out = arg
            /\ noise.level = NoiseDen => \A j \in Idx(size) : out[j] = -arg[j]

\* add_noise flipped some positions of a longer pattern and kept others
C6_Witness ==
    /\ op = "add_noise"
    /\ size >= 3
    /\ Cardinality(Differ(heap[ret], arg)) \in 1 .. (size - 1)
    /\ (size * noise.level) % NoiseDen # 0

\* ---------------------------------------------------------------------- C1
\* an engine trained once on orthogonal patterns, asked to recall one of them
InitStored == \E n \in 1 .. MaxNeurons : Construct(n)

NextStored ==
    \/ /\ trainCount = 0
       /\ \E ps \in OrthogonalSets(size) : Train(ps)
    \/ /\ op = "train"
       /\ \E k \in 1 .. Len(patterns) : RecallCall(patterns[k], DefaultMaxIter)
    \/ RecallUpdate
    \/ RecallSweepEnd
    \/ RecallReturn
    \/ Release

SpecStored == InitStored /\ [][NextStored]_vars

\* the weights are those a new engine gets from train(ps), and q is one of ps
StoredBy(ps, q) ==
    /\ TrainFn(Zeros(size), size, ps).weights = weights
    /\ \E k \in 1 .. Len(ps) : ps[k] = q

\* C1: on an engine trained once on M pairwise-orthogonal bipolar patterns,
\* 1 <= M < N, recall(p, max_iter=10) returns p for every stored pattern p.
C1_PerfectRecall ==
    (/\ Returned
     /\ trainCount = 1
     /\ max_iter = DefaultMaxIter
     /\ \E ps \in OrthogonalSets(size) : StoredBy(ps, arg)) => heap[ret] = arg

\* the second of three stored patterns of length 4 was recalled
C1_Witness ==
    /\ Returned
    /\ size = 4
    /\ trainCount = 1
    /\ max_iter = DefaultMaxIter
    /\ \E ps \in OrthogonalSeqs(size, 3) : StoredBy(ps, arg) /\ ps[2] = arg

====
